---- MODULE Spec2Model ----
(***************************************************************************)
(* Model of src/app.py: get_llm_response (credential resolution, message   *)
(* construction, remote completion call, catch-all handler) and main (one  *)
(* Streamlit script run per user interaction, with the session's           *)
(* response_history).                                                      *)
(*                                                                         *)
(* Texts.  A Python str is a sequence of symbols.  A symbol is one         *)
(* character (" ", "\n", "a", "b") or stands for a fixed run of characters *)
(* of a literal (the source's literals are Japanese; each is written here  *)
(* as an ASCII symbol, and the persona keys and instruction strings by the *)
(* ASCII names the specification gives them).  Credentials are atomic      *)
(* strings, "" being the empty one.                                        *)
(***************************************************************************)
EXTENDS Naturals, Sequences, FiniteSets

VARIABLES
    secrets,           \* state of the Streamlit secret store
    environ,           \* os.environ's OPENAI_API_KEY: None or a string
    response_history,  \* st.session_state.response_history
    displayed,         \* the history entries the last script run rendered
    run,               \* the interaction that caused the last script run
    calls              \* the get_llm_response calls of the last script run

vars == <<secrets, environ, response_history, displayed, run, calls>>

\* ------------------------------------------------------------------ bounds
MaxLen == 2    \* longest input_text handed directly to get_llm_response
MaxLog == 4    \* submissions recorded before the session model stops adding

\* ------------------------------------------------------- Python primitives
None == [isNone |-> TRUE, v |-> ""]
Some(s) == [isNone |-> FALSE, v |-> s]

\* `not x` for an Optional[str]
Falsy_never(x) == FALSE
Falsy(x) == x.isNone \/ x.v = ""

\* outcome of evaluating an expression or a block
Return(v) == [kind |-> "return", cls |-> "", value |-> v]
Raise(c, d) == [kind |-> "raise", cls |-> c, value |-> d]

\* the built-in classes that occur, each with its bases
Bases(c) ==
    CASE c = "KeyError" -> {"KeyError", "LookupError", "Exception", "BaseException"}
      [] c = "FileNotFoundError" -> {"FileNotFoundError", "OSError", "Exception", "BaseException"}
      [] OTHER -> {c, "Exception", "BaseException"}

Whitespace == {" ", "\n", "\t"}

\* str.lstrip / str.rstrip / str.strip
RECURSIVE LStrip(_)
LStrip(s) == IF s # <<>> /\ Head(s) \in Whitespace THEN LStrip(Tail(s)) ELSE s

RECURSIVE RStrip(_)
RStrip(s) ==
    IF s # <<>> /\ s[Len(s)] \in Whitespace THEN RStrip(SubSeq(s, 1, Len(s) - 1)) ELSE s

Strip_leftOnly(s) == LStrip(s)
Strip(s) == RStrip(LStrip(s))

\* str(KeyError(k)) is repr(k)
KeyErrorStr(k) == <<"'", k, "'">>

\* ------------------------------------------------ constants of the source
MissingKeyMsg == <<"ERA-", ":", " OpenAI API key is not set. Set it in Streamlit Secrets or GitHub Secrets.">>
ErrorMarker == <<"ERA-", "ga hassei shimashita", ":", " ">>
ModelName == "gpt-3.5-turbo"
Temperature == "0.7"

system_messages ==
    [e \in {"medical-expert", "it-engineer", "business-consultant",
            "education-expert", "culinary-expert"} |->
        CASE e = "medical-expert" -> <<"You are an experienced medical expert. Give accurate general health information, not diagnoses.">>
          [] e = "it-engineer" -> <<"You are a skilled IT engineer. Give technical, practical advice.">>
          [] e = "business-consultant" -> <<"You are an experienced business consultant. Give practical business advice.">>
          [] e = "education-expert" -> <<"You are an education expert. Give effective learning advice.">>
          [] e = "culinary-expert" -> <<"You are a culinary researcher. Give advice on tasty, healthy cooking.">>]

RadioOptions ==
    <<"medical-expert", "it-engineer", "business-consultant", "education-expert",
      "culinary-expert">>


\* ----------------------------------------------------- external boundaries
\* st.secrets["OPENAI_API_KEY"]
SecretsGetItem(sec) ==
    CASE sec.state = "nofile" -> Raise("FileNotFoundError", <<"No secrets files found">>)
      [] sec.state = "nokey" -> Raise("KeyError", KeyErrorStr("st.secrets has no key OPENAI_API_KEY"))
      [] sec.state = "unreadable" -> Raise("TOMLDecodeError", <<"Invalid TOML">>)
      [] OTHER -> Return(Some(sec.value))

\* os.getenv("OPENAI_API_KEY")
GetEnv(env) == env

\* ChatOpenAI(model=..., temperature=..., api_key=...) and llm.invoke(messages):
\* the collaborator is a black box, collab says what it does when reached
ChatOpenAI(collab, kwargs) == collab.ctor
Invoke(collab, messages) == collab.invoke

\* ---------------------------------------------------------- get_llm_response
\* the handlers of the inner try: except (KeyError, FileNotFoundError)
InnerCatches(c) == {"KeyError", "FileNotFoundError"} \cap Bases(c) # {}

\* lines 39-46: the credential, or the exception that escapes the inner try
ResolveKey_envFirst(sec, env) ==
    IF ~env.isNone THEN Return(GetEnv(env))
    ELSE LET r == SecretsGetItem(sec)
         IN IF r.kind = "raise" /\ InnerCatches(r.cls) THEN Return(GetEnv(env)) ELSE r
ResolveKey(sec, env) ==
    LET r == SecretsGetItem(sec)
    IN IF r.kind = "raise" /\ InnerCatches(r.cls) THEN Return(GetEnv(env)) ELSE r

\* system_messages[expert_type]
LookupSystemMessage_default(expert_type) ==
    IF expert_type \in DOMAIN system_messages
    THEN Return(system_messages[expert_type])
    ELSE Return(system_messages["medical-expert"])
LookupSystemMessage(expert_type) ==
    IF expert_type \in DOMAIN system_messages
    THEN Return(system_messages[expert_type])
    ELSE Raise("KeyError", KeyErrorStr(expert_type))

\* lines 59-62
BuildMessages_swapped(instruction, input_text) ==
    <<[role |-> "human", content |-> input_text],
      [role |-> "system", content |-> instruction]>>
BuildMessages(instruction, input_text) ==
    <<[role |-> "system", content |-> instruction],
      [role |-> "human", content |-> input_text]>>

\* what one execution did: how it ended, through which return statement, the
\* keyword arguments of its ChatOpenAI(...) calls and its llm.invoke calls
Trace(o, p, l, i) == [outcome |-> o, path |-> p, llm |-> l, invoked |-> i]

\* lines 38-66, the body of the outer try
TryBody(input_text, expert_type, sec, env, collab) ==
    LET key == ResolveKey(sec, env)
    IN IF key.kind = "raise" THEN Trace(key, "raise", <<>>, <<>>)
       ELSE IF Falsy(key.value) THEN Trace(Return(MissingKeyMsg), "missing_key", <<>>, <<>>)
       ELSE
         LET kwargs == [model |-> ModelName, temperature |-> Temperature,
                        api_key |-> key.value.v]
             llm == ChatOpenAI(collab, kwargs)
         IN IF llm.kind = "raise" THEN Trace(llm, "raise", <<kwargs>>, <<>>)
            ELSE
              LET instr == LookupSystemMessage(expert_type)
              IN IF instr.kind = "raise" THEN Trace(instr, "raise", <<kwargs>>, <<>>)
                 ELSE
                   LET messages == BuildMessages(instr.value, input_text)
                       call == [llm |-> kwargs, messages |-> messages]
                       response == Invoke(collab, messages)
                   IN IF response.kind = "raise"
                      THEN Trace(response, "raise", <<kwargs>>, <<call>>)
                      ELSE Trace(Return(response.value), "success", <<kwargs>>, <<call>>)

\* line 68: except Exception
OuterCatches_keyErrorOnly(c) == "KeyError" \in Bases(c)
OuterCatches(c) == "Exception" \in Bases(c)

\* lines 16-69
GetLLMResponse(input_text, expert_type, sec, env, collab) ==
    LET b == TryBody(input_text, expert_type, sec, env, collab)
    IN IF b.outcome.kind = "raise" /\ OuterCatches(b.outcome.cls)
       THEN Trace(Return(ErrorMarker \o b.outcome.value), "exception", b.llm, b.invoked)
       ELSE b

\* ------------------------------------------------------------------- main
HistoryShown == 3

\* line 135: user_input and user_input.strip()
IsNonBlank_noStrip(user_input) == user_input # <<>>
IsNonBlank(user_input) == user_input # <<>> /\ Strip(user_input) # <<>>

\* lines 160-164
AppendExchange_prepend(history, expert, question, response) ==
    <<[expert |-> expert, question |-> question, response |-> response]>> \o history
AppendExchange(history, expert, question, response) ==
    Append(history, [expert |-> expert, question |-> question, response |-> response])

\* history[-n:]
LastN(history, n) ==
    IF Len(history) <= n THEN history
    ELSE SubSeq(history, Len(history) - n + 1, Len(history))

\* reversed(xs)
Reversed(xs) == [i \in 1..Len(xs) |-> xs[Len(xs) - i + 1]]

\* lines 175-182: the entries rendered, in rendering order
RenderHistory_oldestFirst(history) == LastN(history, HistoryShown)
RenderHistory(history) ==
    IF history # <<>> THEN Reversed(LastN(history, HistoryShown)) ELSE <<>>


\* -------------------------------------------------- the inputs explored
Chars == {" ", "a"}

\* every text over Chars of length at most n
Texts(n) == UNION {[1..k -> Chars] : k \in 0..n}

Keys == {"", "sk-A", "sk-B"}

SecretStates ==
    {[state |-> st, value |-> ""] : st \in {"nofile", "nokey", "unreadable"}}
        \cup {[state |-> "value", value |-> k] : k \in Keys}

EnvStates == {None} \cup {Some(k) : k \in Keys}

\* the five registered personas and one value outside the registry
ExpertTypes == DOMAIN system_messages \cup {"astrologer"}

\* what the collaborator does when reached: its constructor returns or raises,
\* its invoke returns a response with some content or raises
Contents == {<<"OK">>, <<>>, MissingKeyMsg, ErrorMarker \o <<"timeout">>}
Collabs ==
    {[ctor |-> Return("llm"), invoke |-> Return(c)] : c \in Contents}
        \cup {[ctor |-> Return("llm"), invoke |-> Raise("APITimeoutError", <<"timeout">>)],
              [ctor |-> Return("llm"), invoke |-> Raise("KeyError", KeyErrorStr("choices"))],
              [ctor |-> Raise("ValidationError", <<"validation">>), invoke |-> Return(<<"OK">>)]}

\* the session model: the texts typed, the personas picked, the deployments
\* and the collaborator's behaviours
UserInputs ==
    {<<>>, <<" ", "\n">>, <<"a">>, <<" ", "a", " ">>, <<"a", " ", "b", "\n">>}
SessionExperts == {RadioOptions[1], RadioOptions[2]}
SessionConfigs ==
    {<<[state |-> "nokey", value |-> ""], None>>,
     <<[state |-> "value", value |-> "sk-A"], Some("sk-B")>>,
     <<[state |-> "nofile", value |-> ""], Some("sk-B")>>}
SessionCollabs ==
    {[ctor |-> Return("llm"), invoke |-> Return(<<"OK">>)],
     [ctor |-> Return("llm"), invoke |-> Raise("APITimeoutError", <<"timeout">>)]}

\* --------------------------------------------------------- state machine
NoInput == [kind |-> "start", expert_type |-> RadioOptions[1], user_input |-> <<>>]

\* one get_llm_response call: its arguments, the collaborator it met, what it did
CallRecord(input_text, expert_type, collab, t) ==
    [input_text |-> input_text, expert_type |-> expert_type, collab |-> collab,
     outcome |-> t.outcome, path |-> t.path, llm |-> t.llm, invoked |-> t.invoked]

\* a new session: lines 83-84, and the first script run renders an empty page
Init ==
    /\ \E cfg \in SessionConfigs : secrets = cfg[1] /\ environ = cfg[2]
    /\ response_history = <<>>
    /\ displayed = <<>>
    /\ run = NoInput
    /\ calls = <<>>

\* the form is submitted: lines 134-172, then the history is rendered
Submit(expert_type, user_input, collab) ==
    /\ run' = [kind |-> "submit", expert_type |-> expert_type, user_input |-> user_input]
    /\ IF IsNonBlank(user_input)
       THEN LET t == GetLLMResponse(Strip(user_input), expert_type, secrets, environ, collab)
            IN /\ Len(response_history) < MaxLog
               /\ calls' = <<CallRecord(Strip(user_input), expert_type, collab, t)>>
               /\ response_history' =
                    IF t.outcome.kind = "return"
                    THEN AppendExchange(response_history, expert_type,
                                        Strip(user_input), t.outcome.value)
                    ELSE response_history
       ELSE /\ calls' = <<>>
            /\ response_history' = response_history
    /\ displayed' = RenderHistory(response_history')
    /\ UNCHANGED <<secrets, environ>>

\* a script run that no button caused (the radio selection changed)
Rerun(expert_type) ==
    /\ run' = [kind |-> "rerun", expert_type |-> expert_type, user_input |-> <<>>]
    /\ calls' = <<>>
    /\ displayed' = RenderHistory(response_history)
    /\ UNCHANGED <<secrets, environ, response_history>>

\* the clear button, rendered only while the history is not empty: lines
\* 185-188; st.rerun() runs the script again at once, which renders the page
ClearHistory ==
    /\ response_history # <<>>
    /\ run' = [kind |-> "clear", expert_type |-> run.expert_type, user_input |-> <<>>]
    /\ calls' = <<>>
    /\ response_history' = <<>>
    /\ displayed' = RenderHistory(response_history')
    /\ UNCHANGED <<secrets, environ>>

Next ==
    \/ \E e \in SessionExperts, t \in UserInputs, c \in SessionCollabs : Submit(e, t, c)
    \/ \E e \in SessionExperts : Rerun(e)
    \/ ClearHistory

Spec == Init /\ [][Next]_vars

\* get_llm_response called directly, on every deployment and argument
InitCall ==
    /\ secrets \in SecretStates
    /\ environ \in EnvStates
    /\ response_history = <<>>
    /\ displayed = <<>>
    /\ run = NoInput
    /\ calls = <<>>

CallGetLLMResponse(input_text, expert_type, collab) ==
    /\ calls = <<>>
    /\ run' = [kind |-> "call", expert_type |-> expert_type, user_input |-> input_text]
    /\ calls' = <<CallRecord(input_text, expert_type, collab,
                             GetLLMResponse(input_text, expert_type, secrets, environ, collab))>>
    /\ UNCHANGED <<secrets, environ, response_history, displayed>>

NextCall ==
    \E t \in Texts(MaxLen), e \in ExpertTypes, c \in Collabs : CallGetLLMResponse(t, e, c)

SpecCall == InitCall /\ [][NextCall]_vars

TypeOK ==
    /\ Len(response_history) <= MaxLog
    /\ Len(calls) <= 1


\* ------------------------------------------------ vocabulary of the claims
SecretAbsent == secrets.state \in {"nofile", "nokey"}
SecretEmpty == secrets.state = "value" /\ secrets.value = ""
SecretNonEmpty == secrets.state = "value" /\ secrets.value # ""
EnvAbsent == environ.isNone
EnvNonEmpty == ~environ.isNone /\ environ.v # ""

\* the credential the resolution order of the specification yields: the
\* store's value, and the environment's when the store has no entry
CredentialAvailable == SecretNonEmpty \/ (SecretAbsent /\ EnvNonEmpty)

Registered(e) == e \in DOMAIN system_messages

HasPrefix(s, pre) == Len(s) >= Len(pre) /\ SubSeq(s, 1, Len(pre)) = pre

IsFailureString(s) == s = MissingKeyMsg \/ HasPrefix(s, ErrorMarker)

\* t is s without its leading and trailing whitespace
IsTrimOf(t, s) ==
    /\ \E i \in 0..Len(s), j \in 0..Len(s) :
         /\ i + Len(t) + j = Len(s)
         /\ \A k \in 1..i : s[k] \in Whitespace
         /\ \A k \in 1..j : s[Len(s) - k + 1] \in Whitespace
         /\ \A k \in 1..Len(t) : t[k] = s[i + k]
    /\ t # <<>> => t[1] \notin Whitespace /\ t[Len(t)] \notin Whitespace

IsBlank(s) == \A k \in 1..Len(s) : s[k] \in Whitespace

Min(a, b) == IF a <= b THEN a ELSE b

\* ----------------------------------------------------------------- claims

\* C1: with the secret store and the environment variable both absent,
\* get_llm_response returns the fixed missing-credential message, builds no
\* client and performs no remote call, whatever the text and persona.
C1_MissingCredentialNoRemoteCall ==
    \A i \in DOMAIN calls :
        (SecretAbsent /\ EnvAbsent) =>
            /\ calls[i].outcome = Return(MissingKeyMsg)
            /\ calls[i].llm = <<>>
            /\ calls[i].invoked = <<>>

C1_Witness ==
    /\ calls # <<>>
    /\ SecretAbsent /\ EnvAbsent
    /\ Registered(calls[1].expert_type)
    /\ calls[1].collab.invoke = Return(<<"OK">>)
    /\ calls[1].outcome.value = MissingKeyMsg

\* C2 (as claimed): the missing-credential failure is returned only when
\* neither source yields a non-empty value; when the store yields none
\* (absent or empty) and the environment variable is non-empty, the
\* environment value is the credential and the remote call is attempted.
C2_EnvironmentFallback ==
    \A i \in DOMAIN calls :
        /\ calls[i].path = "missing_key" => ~SecretNonEmpty /\ ~EnvNonEmpty
        /\ ((SecretAbsent \/ SecretEmpty) /\ EnvNonEmpty) =>
              /\ \A k \in DOMAIN calls[i].llm : calls[i].llm[k].api_key = environ.v
              /\ calls[i].llm # <<>>
              /\ (Registered(calls[i].expert_type) /\ calls[i].collab.ctor.kind = "return")
                    => Len(calls[i].invoked) = 1

\* C3: when the store and the environment variable both hold a credential,
\* the credential given to the collaborator is the store's.
C3_SecretStorePrecedence ==
    \A i \in DOMAIN calls :
        (SecretNonEmpty /\ EnvNonEmpty) =>
            /\ calls[i].llm # <<>>
            /\ \A k \in DOMAIN calls[i].llm : calls[i].llm[k].api_key = secrets.value
            /\ \A k \in DOMAIN calls[i].invoked :
                  calls[i].invoked[k].llm.api_key = secrets.value

C3_Witness ==
    /\ calls # <<>>
    /\ SecretNonEmpty /\ EnvNonEmpty /\ secrets.value # environ.v
    /\ Len(calls[1].invoked) = 1
    /\ calls[1].invoked[1].llm.api_key = "sk-A"
    /\ environ.v = "sk-B"

\* C4: for a registered persona, with a credential and a collaborator that
\* succeeds, the collaborator is invoked exactly once, with the fixed model
\* and temperature and the two messages (system: the persona's own
\* instruction, then human: the text as given), and its content is returned
\* unmodified.
C4_TwoMessagesContentUnmodified ==
    \A i \in DOMAIN calls :
        LET c == calls[i]
        IN (/\ Registered(c.expert_type)
            /\ CredentialAvailable
            /\ c.collab.ctor.kind = "return"
            /\ c.collab.invoke.kind = "return") =>
               /\ Len(c.invoked) = 1
               /\ c.invoked[1].llm.model = "gpt-3.5-turbo"
               /\ c.invoked[1].llm.temperature = "0.7"
               /\ c.invoked[1].messages =
                    <<[role |-> "system", content |-> system_messages[c.expert_type]],
                      [role |-> "human", content |-> c.input_text]>>
               /\ \A p \in DOMAIN system_messages :
                     p # c.expert_type =>
                        c.invoked[1].messages[1].content # system_messages[p]
               /\ c.outcome = Return(c.collab.invoke.value)
               /\ c.path = "success"

C4_Witness ==
    /\ calls # <<>>
    /\ calls[1].expert_type = "it-engineer"
    /\ calls[1].input_text = <<" ", "a">>
    /\ calls[1].collab.invoke = Return(<<"OK">>)
    /\ calls[1].outcome = Return(<<"OK">>)
    /\ Len(calls[1].invoked) = 1

\* C5: no call ends by raising; an exception that escapes the credential
\* resolution, the client or message construction, or the invocation, with
\* description d, becomes the returned string: the marker followed by d.
C5_ExceptionsBecomeMarkedStrings ==
    \A i \in DOMAIN calls :
        LET c == calls[i]
            marked(d) == c.outcome = Return(ErrorMarker \o d)
        IN /\ c.outcome.kind = "return"
           /\ secrets.state = "unreadable" => marked(<<"Invalid TOML">>)
           /\ (CredentialAvailable /\ c.collab.ctor.kind = "raise")
                 => marked(c.collab.ctor.value)
           /\ (CredentialAvailable /\ c.collab.ctor.kind = "return"
                 /\ ~Registered(c.expert_type))
                 => marked(<<"'", c.expert_type, "'">>)
           /\ (CredentialAvailable /\ c.collab.ctor.kind = "return"
                 /\ Registered(c.expert_type) /\ c.collab.invoke.kind = "raise")
                 => marked(c.collab.invoke.value)

C5_Witness ==
    /\ calls # <<>>
    /\ calls[1].collab.invoke = Raise("APITimeoutError", <<"timeout">>)
    /\ Len(calls[1].invoked) = 1
    /\ calls[1].outcome = Return(ErrorMarker \o <<"timeout">>)

\* C6: for a persona outside the registry no remote call is performed, and
\* with a credential the result is a failure carrying the marker.
C6_UnknownPersonaNeverInvokes ==
    \A i \in DOMAIN calls :
        ~Registered(calls[i].expert_type) =>
            /\ calls[i].invoked = <<>>
            /\ CredentialAvailable =>
                  /\ calls[i].outcome.kind = "return"
                  /\ calls[i].path = "exception"
                  /\ HasPrefix(calls[i].outcome.value, ErrorMarker)

C6_Witness ==
    /\ calls # <<>>
    /\ calls[1].expert_type = "astrologer"
    /\ CredentialAvailable
    /\ calls[1].collab.ctor.kind = "return"
    /\ calls[1].collab.invoke = Return(<<"OK">>)
    /\ calls[1].outcome = Return(ErrorMarker \o <<"'", "astrologer", "'">>)

\* C7 (as claimed): a string returned on the successful-completion path is
\* never a string a failure path returns (the missing-credential message, or
\* the marker followed by a description).
C7_SuccessNeverLooksLikeFailure ==
    \A i \in DOMAIN calls :
        calls[i].path = "success" => ~IsFailureString(calls[i].outcome.value)

\* C8: a script run changes the log only as its interaction says: a
\* non-blank submission appends {persona, trimmed text, response} at the end,
\* a failure response like any other; a blank submission and a run without a
\* button leave it as it is; a clear empties it.
C8_LogStep ==
    LET old == response_history
        new == response_history'
        r == run'
    IN /\ (r.kind = "submit" /\ ~IsBlank(r.user_input)) =>
            /\ Len(new) = Len(old) + 1
            /\ \A k \in 1..Len(old) : new[k] = old[k]
            /\ new[Len(new)].expert = r.expert_type
            /\ IsTrimOf(new[Len(new)].question, r.user_input)
            /\ Len(calls') = 1
            /\ new[Len(new)].response = calls'[1].outcome.value
            /\ DOMAIN new[Len(new)] = {"expert", "question", "response"}
       /\ (r.kind = "submit" /\ IsBlank(r.user_input)) => new = old
       /\ r.kind = "rerun" => new = old
       /\ r.kind = "clear" => new = <<>>

C8_ExchangeLog == [][C8_LogStep]_vars

C8_Witness ==
    /\ run.kind = "submit"
    /\ Len(response_history) = 3
    /\ response_history[1].response = <<"OK">>
    /\ response_history[2].expert # response_history[1].expert
    /\ response_history[3].response = ErrorMarker \o <<"timeout">>
    /\ response_history[3].question = <<"a", " ", "b">>

\* C9: what a script run displays is exactly the min(n, 3) most recent
\* entries of the log of length n, the newest first.
C9_DisplayedRecentThree ==
    LET n == Len(response_history)
    IN /\ Len(displayed) = Min(n, 3)
       /\ \A k \in 1..Len(displayed) : displayed[k] = response_history[n - k + 1]

C9_Witness ==
    /\ Len(response_history) = 4
    /\ Len(displayed) = 3
    /\ displayed[1] = response_history[4]
    /\ displayed[3] = response_history[2]
    /\ response_history[1] # response_history[2]
    /\ response_history[4] # response_history[2]

\* C10: a submission makes at most one get_llm_response call, with the text
\* trimmed; a blank submission makes none and leaves the log unchanged; a run
\* without a submission (a clear included) makes none.
C10_Step ==
    LET r == run'
    IN /\ Len(calls') <= 1
       /\ (r.kind = "submit" /\ ~IsBlank(r.user_input)) =>
             /\ Len(calls') = 1
             /\ IsTrimOf(calls'[1].input_text, r.user_input)
             /\ calls'[1].expert_type = r.expert_type
             /\ Len(calls'[1].invoked) <= 1
       /\ (r.kind = "submit" /\ IsBlank(r.user_input)) =>
             /\ calls' = <<>>
             /\ response_history' = response_history
       /\ r.kind \in {"rerun", "clear"} => calls' = <<>>

C10_OneCallPerSubmit == [][C10_Step]_vars

C10_Witness ==
    /\ run.kind = "submit"
    /\ run.user_input = <<" ", "a", " ">>
    /\ Len(calls) = 1
    /\ calls[1].input_text = <<"a">>
    /\ Len(response_history) = 2

====
